---- MODULE Spec2Model ----
(***************************************************************************)
(* Model of jsonquery's node.go: the conversion of a decoded JSON value    *)
(* into a doubly-linked Node tree (Parse / parse / parseValue / addNode)   *)
(* and the read-only operations ChildNodes, InnerText and OutputXML.       *)
(*                                                                         *)
(* Go strings are byte sequences: a string is modelled as a sequence of    *)
(* byte codes ("ab" is <<97, 98>>).  A *Node is an index into the arena    *)
(* `nodes`; the nil pointer is Nil.                                        *)
(***************************************************************************)
EXTENDS Integers, Sequences, FiniteSets, TLC

\* ------------------------------------------------------------------ bounds

\* Largest decoded JSON value of the main specification, counted in values
\* (every scalar, array and object counts one).
MaxSize == 3

\* ------------------------------------------------------------- NodeType

DocumentNode == 0
ElementNode == 1
TextNode == 2

\* The nil *Node.
Nil == 0

\* The zero value of Node.Data.
EmptyString == <<>>

\* &Node{Type: t, Data: d, level: l}: every link is nil.
NewNode(t, d, l) ==
    [Parent |-> Nil, PrevSibling |-> Nil, NextSibling |-> Nil,
     FirstChild |-> Nil, LastChild |-> Nil,
     Type |-> t, Data |-> d, level |-> l]

\* ------------------------------------------------- decoded JSON values
\* What json.Unmarshal stores into an interface{}: nil, string, float64,
\* bool, []interface{} or map[string]interface{}.  One record shape for all
\* kinds.  A map is held as its keys (distinct) and the values under them,
\* in the order a `range` over the map yields them, which Go leaves
\* unspecified: every order is an input.  A float64 holding an integer is
\* its sign and the binary digits of its magnitude, most significant first.

JNull == [kind |-> "nil", str |-> <<>>, neg |-> FALSE, bits |-> <<>>,
          b |-> FALSE, keys |-> <<>>, items |-> <<>>]

JString(s) == [JNull EXCEPT !.kind = "string", !.str = s]

JFloat(neg, bits) == [JNull EXCEPT !.kind = "float64", !.neg = neg, !.bits = bits]

JBool(b) == [JNull EXCEPT !.kind = "bool", !.b = b]

JArray(items) == [JNull EXCEPT !.kind = "slice", !.items = items]

JMap(keys, items) == [JNull EXCEPT !.kind = "map", !.keys = keys, !.items = items]

\* A body json.Unmarshal rejects.
Malformed == [JNull EXCEPT !.kind = "malformed"]

\* v[key] of a map value.
MapLookup(v, key) ==
    v.items[CHOOSE i \in 1..Len(v.keys) : v.keys[i] = key]

\* ----------------------------------------------------------- the inputs

\* "x", -12 (binary 1100), true and null.
Scalars ==
    {JNull, JString(<<120>>), JFloat(TRUE, <<1, 1, 0, 0>>), JBool(TRUE)}

\* "", "ab" and "b".
Keys == {<<>>, <<97, 98>>, <<98>>}

\* The sequences of n distinct keys.
KeySeqs(n) ==
    {ks \in [1..n -> Keys] : \A i, j \in 1..n : ks[i] = ks[j] => i = j}

RECURSIVE ValuesOfSize(_)
RECURSIVE SeqsOfSize(_)
\* The sequences of values whose sizes add up to m.
SeqsOfSize(m) ==
    IF m = 0 THEN {<<>>}
    ELSE UNION {{<<v>> \o s : v \in ValuesOfSize(j), s \in SeqsOfSize(m - j)} :
                j \in 1..m}

\* The decoded values of size n.
ValuesOfSize(n) ==
    (IF n = 1 THEN Scalars ELSE {})
    \cup {JArray(s) : s \in SeqsOfSize(n - 1)}
    \cup UNION {{JMap(ks, s) : ks \in KeySeqs(Len(s))} : s \in SeqsOfSize(n - 1)}

Values == UNION {ValuesOfSize(n) : n \in 1..MaxSize}

\* Documents beyond MaxSize: an object of two members (each null or false),
\* in either range order, as an array entry and as a member value.
NestedObjects ==
    LET inner == {JMap(ks, vs) : ks \in KeySeqs(2),
                                vs \in [1..2 -> {JNull, JBool(FALSE)}]}
    IN  {JArray(<<m>>) : m \in inner}
        \cup {JMap(<<k>>, <<m>>) : k \in Keys, m \in inner}

\* Documents beyond MaxSize: an object of three members in every range order.
ThreeKeys ==
    {JMap(ks, <<JString(<<120>>), JFloat(TRUE, <<1, 1, 0, 0>>), JBool(TRUE)>>) :
        ks \in KeySeqs(3)}

Bodies == Values \cup NestedObjects \cup ThreeKeys \cup {Malformed}

\* ---------------------------------------------------------------- strings

RECURSIVE StrLess(_, _)
\* Go's a < b on strings: bytewise lexicographic, a proper prefix is smaller.
StrLess(a, b) ==
    IF a = <<>> THEN b # <<>>
    ELSE IF b = <<>> THEN FALSE
    ELSE IF a[1] # b[1] THEN a[1] < b[1]
    ELSE StrLess(Tail(a), Tail(b))

RECURSIVE InsertString(_, _)
\* s (ascending) with the string k put in its place.
InsertString(s, k) ==
    IF s = <<>> THEN <<k>>
    ELSE IF StrLess(k, s[1]) THEN <<k>> \o s
    ELSE <<s[1]>> \o InsertString(Tail(s), k)

RECURSIVE SortStrings(_)
\* sort.Strings(keys): the keys in ascending order.
SortStrings(keys) ==
    IF keys = <<>> THEN <<>>
    ELSE InsertString(SortStrings(Tail(keys)), keys[1])

\* The keys of a map in the order `for key := range v` appends them.
RangeKeys(v) == v.keys

\* ------------------------------------------------- decimal arithmetic
\* A natural number as its decimal digits, most significant first, without
\* leading zeros; zero is the empty sequence.

Front(s) == SubSeq(s, 1, Len(s) - 1)

Last(s) == s[Len(s)]

RECURSIVE StripZeros(_)
StripZeros(d) ==
    IF d # <<>> /\ d[1] = 0 THEN StripZeros(Tail(d)) ELSE d

RECURSIVE MulAdd(_, _, _)
\* m * d + c, for small m and c.
MulAdd(d, m, c) ==
    IF d = <<>>
    THEN (IF c = 0 THEN <<>>
          ELSE IF c < 10 THEN <<c>>
          ELSE MulAdd(<<>>, m, c \div 10) \o <<c % 10>>)
    ELSE LET t == m * Last(d) + c
         IN  MulAdd(Front(d), m, t \div 10) \o <<t % 10>>

\* 2 * d + c.
DoubleAdd(d, c) == MulAdd(d, 2, c)

RECURSIVE AddDigits(_, _, _)
\* a + b + c, for a carry c in 0..1.
AddDigits(a, b, c) ==
    IF a = <<>> /\ b = <<>> THEN (IF c = 0 THEN <<>> ELSE <<c>>)
    ELSE LET x == IF a = <<>> THEN 0 ELSE Last(a)
             y == IF b = <<>> THEN 0 ELSE Last(b)
             t == x + y + c
         IN  AddDigits(IF a = <<>> THEN a ELSE Front(a),
                       IF b = <<>> THEN b ELSE Front(b),
                       t \div 10) \o <<t % 10>>

DecAdd(a, b) == AddDigits(a, b, 0)

RECURSIVE SubDigits(_, _, _)
\* a - b - c with leading zeros kept, for a >= b + c and a borrow c in 0..1.
SubDigits(a, b, c) ==
    IF a = <<>> THEN <<>>
    ELSE LET y == IF b = <<>> THEN 0 ELSE Last(b)
             t == Last(a) - y - c
         IN  SubDigits(Front(a), IF b = <<>> THEN b ELSE Front(b),
                       IF t < 0 THEN 1 ELSE 0)
             \o <<IF t < 0 THEN t + 10 ELSE t>>

DecSub(a, b) == StripZeros(SubDigits(a, b, 0))

RECURSIVE DigitsLess(_, _)
DigitsLess(a, b) ==
    IF a = <<>> THEN FALSE
    ELSE IF a[1] # b[1] THEN a[1] < b[1]
    ELSE DigitsLess(Tail(a), Tail(b))

DecLess(a, b) ==
    IF Len(a) # Len(b) THEN Len(a) < Len(b) ELSE DigitsLess(a, b)

DecLeq(a, b) == ~DecLess(b, a)

RECURSIVE SmallPow2(_)
\* 2^n as a number, for small n.
SmallPow2(n) == IF n = 0 THEN 1 ELSE 2 * SmallPow2(n - 1)

RECURSIVE SmallBits(_)
\* The value of a short binary numeral, as a number.
SmallBits(bits) ==
    IF bits = <<>> THEN 0 ELSE 2 * SmallBits(Front(bits)) + Last(bits)

RECURSIVE Pow2(_)
\* 2^n as a decimal numeral.
Pow2(n) ==
    IF n <= 8 THEN MulAdd(<<1>>, SmallPow2(n), 0)
    ELSE MulAdd(Pow2(n - 8), 256, 0)

RECURSIVE Zeros(_)
Zeros(n) == IF n = 0 THEN <<>> ELSE <<0>> \o Zeros(n - 1)

RECURSIVE BitsToDec(_)
\* The value of a binary numeral, as a decimal numeral (eight binary digits
\* a step).
BitsToDec(bits) ==
    IF Len(bits) <= 8 THEN MulAdd(<<>>, 1, SmallBits(bits))
    ELSE MulAdd(BitsToDec(SubSeq(bits, 1, Len(bits) - 8)), 256,
                SmallBits(SubSeq(bits, Len(bits) - 7, Len(bits))))

\* ------------------------------------------------------------- float64

\* The bits of a float64 mantissa, the implicit one included.
MantBits == 53

\* A nonnegative integer is a float64 iff it needs no more than MantBits
\* significant bits (the exponent range is not reached by the inputs).
Representable(bits) ==
    /\ bits = <<>> \/ bits[1] = 1
    /\ \A i \in 1..Len(bits) : i > MantBits => bits[i] = 0

\* d rounded down to a multiple of 10^k, for k <= Len(d).
FloorPow10(d, k) ==
    LET p == SubSeq(d, 1, Len(d) - k)
    IN  IF p = <<>> THEN <<>> ELSE p \o Zeros(k)

\* The next multiple of 10^k above FloorPow10(d, k).
CeilPow10(d, k) ==
    AddDigits(SubSeq(d, 1, Len(d) - k), <<>>, 1) \o Zeros(k)

\* The shortest decimal digits that identify the float64 of magnitude
\* bits (an integer above 2^MantBits), written out as an integer: of the
\* decimals that round to this float64, one with the fewest significant
\* digits and, among those, the closest to the value (half to even).
ShortestDigits(bits) ==
    LET v == BitsToDec(bits)
        e == Len(bits) - MantBits
        even == bits[MantBits] = 0
        pow2 == \A i \in 2..MantBits : bits[i] = 0
        hi == DecAdd(v, Pow2(e - 1))
        \* below a power of two the floats are twice as dense
        lo == IF pow2
              THEN (IF e = 1 THEN v ELSE DecSub(v, Pow2(e - 2)))
              ELSE DecSub(v, Pow2(e - 1))
        loClosed == even \/ (pow2 /\ e = 1)
        In(c) == /\ IF loClosed THEN DecLeq(lo, c) ELSE DecLess(lo, c)
                 /\ IF even THEN DecLeq(c, hi) ELSE DecLess(c, hi)
        Fits(k) == In(FloorPow10(v, k)) \/ In(CeilPow10(v, k))
        k == CHOOSE j \in 0..Len(v) :
                 Fits(j) /\ \A i \in (j + 1)..Len(v) : ~Fits(i)
        f == FloorPow10(v, k)
        c == CeilPow10(v, k)
        rem2 == DoubleAdd(DecSub(v, f), 0)
        unit == <<1>> \o Zeros(k)
        up == IF DecLess(unit, rem2) THEN TRUE
              ELSE IF DecLess(rem2, unit) THEN FALSE
              ELSE Last(SubSeq(v, 1, Len(v) - k)) % 2 = 1
    IN  IF ~In(f) THEN c
        ELSE IF ~In(c) THEN f
        ELSE IF up THEN c ELSE f

\* The ASCII digits of a decimal numeral; zero is "0".
DigitBytes(d) ==
    IF d = <<>> THEN <<48>> ELSE [i \in 1..Len(d) |-> 48 + d[i]]

\* FormatFloat with precision 6 in place of -1: six fraction digits.
FormatFloatPrec6(v) ==
    (IF v.neg THEN <<45>> ELSE <<>>)
    \o DigitBytes(BitsToDec(v.bits)) \o <<46, 48, 48, 48, 48, 48, 48>>

\* strconv.FormatFloat(v, 'f', -1, 64) of an integer-valued float64: the
\* sign, then the shortest identifying digits padded with zeros up to the
\* decimal point; no fraction and no exponent in format 'f'.  Magnitudes of
\* up to MantBits bits are converted digit for digit.
FormatFloat(v) ==
    (IF v.neg THEN <<45>> ELSE <<>>)
    \o DigitBytes(IF Len(v.bits) <= MantBits THEN BitsToDec(v.bits)
                  ELSE ShortestDigits(v.bits))

\* strconv.FormatBool(v).
FormatBool(b) ==
    IF b THEN <<116, 114, 117, 101>> ELSE <<102, 97, 108, 115, 101>>

\* ------------------------------------------- the inputs with large numbers

\* The largest number of zero bits put after a mantissa.
MaxShift == 12

\* 365823929453 in binary.
LargeNumberBits ==
    <<1, 0, 1, 0, 1, 0, 1, 0, 0, 1, 0, 1, 1, 0, 0, 1, 1, 0, 0, 1, 1, 1, 0, 0, 0,
      1, 0, 1, 1, 0, 0, 0, 1, 1, 0, 1, 1, 0, 1>>

\* 1, 3, 5, 365823929453, 2^50, 2^51 + 1 and 2^53 - 1.
Mantissas ==
    {<<1>>, <<1, 1>>, <<1, 0, 1>>, LargeNumberBits, <<1>> \o Zeros(50),
     <<1>> \o Zeros(50) \o <<1>>, [i \in 1..MantBits |-> 1]}

\* Integer-valued float64s: zero and m * 2^z, of either sign.
Floats ==
    {f \in {JFloat(neg, m \o Zeros(z)) :
                neg \in BOOLEAN, m \in Mantissas \cup {<<>>}, z \in 0..MaxShift} :
        Representable(f.bits)}

\* A number as the document, as an array entry beside a null, and as the
\* member of an object.
NumBodies ==
    Floats
    \cup {JArray(<<f, JNull>>) : f \in Floats}
    \cup {JMap(<<<<98>>>>, <<f>>) : f \in Floats}
    \cup {Malformed}

\* ------------------------------------------------------------ the state

VARIABLES
    body,   \* what the reader holds: a decodable value, or Malformed
    pc,     \* where the call is: "start", "Parse", "parse", "parseValue", "done"
    nodes,  \* the Nodes allocated so far; a *Node is an index, Nil is nil
    stack,  \* the active calls of parseValue, innermost first
    ret,    \* the *Node the call returned
    err,    \* the error the call returned ("nil": none)
    last    \* the last read-only call made on the tree, and what it returned

vars == <<body, pc, nodes, stack, ret, err, last>>

NoCall == [op |-> "none", n |-> Nil, res |-> <<>>, again |-> FALSE, was |-> <<>>]

Init ==
    /\ body \in Bodies
    /\ pc = "start"
    /\ nodes = <<>>
    /\ stack = <<>>
    /\ ret = Nil
    /\ err = "nil"
    /\ last = NoCall

\* ---------------------------------------------------------- the builder

\* addNode without `n.PrevSibling = t`.
addNodeNoPrev(ns, top, n) ==
    IF ns[n].level > ns[top].level
    THEN IF ns[top].FirstChild = Nil
         THEN [ns EXCEPT ![n].Parent = top,
                         ![top].FirstChild = n,
                         ![top].LastChild = n]
         ELSE [ns EXCEPT ![n].Parent = top,
                         ![ns[top].LastChild].NextSibling = n,
                         ![top].LastChild = n]
    ELSE ns

\* addNode(n) inside parseValue(x, top, level): links the new node n.
addNode(ns, top, n) ==
    IF ns[n].level = ns[top].level
    THEN LET linked == [ns EXCEPT ![top].NextSibling = n,
                                  ![n].PrevSibling = top,
                                  ![n].Parent = ns[top].Parent]
         IN  IF ns[top].Parent # Nil
             THEN [linked EXCEPT ![ns[top].Parent].LastChild = n]
             ELSE linked
    ELSE IF ns[n].level > ns[top].level
    THEN IF ns[top].FirstChild = Nil
         THEN [ns EXCEPT ![n].Parent = top,
                         ![top].FirstChild = n,
                         ![top].LastChild = n]
         ELSE LET t == ns[top].LastChild
              IN  [ns EXCEPT ![n].Parent = top,
                             ![t].NextSibling = n,
                             ![n].PrevSibling = t,
                             ![top].LastChild = n]
    ELSE ns

\* n := &Node{...}; addNode(n): the arena with the new node linked in.
Attach(ns, top, node) ==
    addNode(Append(ns, node), top, Len(ns) + 1)

\* A call parseValue(x, top, level); i counts the loop iterations done.
Frame(x, top, level) == [x |-> x, top |-> top, level |-> level, i |-> 0]

\* ChildLevel without the increment.
ChildLevelSame(level) == level

\* The level of the recursive calls: parseValue(vv, n, level+1).
ChildLevel(level) == level + 1

\* The level parse hands to the outermost parseValue.
RootLevel == 1

\* SortedKeys without the sort.Strings call.
SortedKeysUnsorted(x) == RangeKeys(x)

\* The keys a map's loop runs over.
SortedKeys(x) == SortStrings(RangeKeys(x))

\* RangeItem with the slice walked from its end.
RangeItemReversed(x, i) == x.items[Len(x.items) + 1 - i]

\* vv of iteration i of `for _, vv := range v` over a slice.
RangeItem(x, i) == x.items[i]

\* TextKinds with nil handled like a scalar.
TextKindsWithNil == {"string", "float64", "bool", "nil"}

\* The kinds the switch makes a Text node for: string, float64 and bool.
TextKinds == {"string", "float64", "bool"}

\* The Data of the Text node made for a scalar.
ScalarText(x) ==
    IF x.kind = "string" THEN x.str
    ELSE IF x.kind = "float64" THEN FormatFloat(x)
    ELSE FormatBool(x.b)

\* Unmarshal with the error dropped.
UnmarshalErrorDropped(b) ==
    [err |-> "nil", v |-> IF b = Malformed THEN JNull ELSE b]

\* json.Unmarshal(b, &v): the error, and v.
Unmarshal(b) ==
    IF b = Malformed THEN [err |-> "decode", v |-> JNull]
    ELSE [err |-> "nil", v |-> b]

\* LoadURL: http.Get fails.
LoadURLFail ==
    /\ pc = "start"
    /\ pc' = "done"
    /\ ret' = Nil
    /\ err' = "transport"
    /\ UNCHANGED <<body, nodes, stack, last>>

\* LoadURL: http.Get succeeds and the body goes to Parse.
LoadURL ==
    /\ pc = "start"
    /\ pc' = "Parse"
    /\ UNCHANGED <<body, nodes, stack, ret, err, last>>

\* Parse: ioutil.ReadAll fails.
ParseReadFail ==
    /\ pc \in {"start", "Parse"}
    /\ pc' = "done"
    /\ ret' = Nil
    /\ err' = "read"
    /\ UNCHANGED <<body, nodes, stack, last>>

\* Parse: ioutil.ReadAll succeeds and the bytes go to parse.
Parse ==
    /\ pc \in {"start", "Parse"}
    /\ pc' = "parse"
    /\ UNCHANGED <<body, nodes, stack, ret, err, last>>

\* parse: json.Unmarshal fails.
parseFail ==
    /\ pc = "parse"
    /\ Unmarshal(body).err # "nil"
    /\ pc' = "done"
    /\ ret' = Nil
    /\ err' = Unmarshal(body).err
    /\ UNCHANGED <<body, nodes, stack, last>>

\* parse: the Document node is made and parseValue(v, doc, 1) called.
parse ==
    /\ pc = "parse"
    /\ Unmarshal(body).err = "nil"
    /\ nodes' = <<NewNode(DocumentNode, EmptyString, 0)>>
    /\ stack' = <<Frame(Unmarshal(body).v, 1, RootLevel)>>
    /\ pc' = "parseValue"
    /\ UNCHANGED <<body, ret, err, last>>

\* case []interface{}: one iteration of the loop.
parseValueSlice ==
    /\ pc = "parseValue" /\ stack # <<>>
    /\ LET f == Head(stack)
       IN  /\ f.x.kind = "slice"
           /\ f.i < Len(f.x.items)
           /\ nodes' = Attach(nodes, f.top, NewNode(ElementNode, EmptyString, f.level))
           /\ stack' = <<Frame(RangeItem(f.x, f.i + 1), Len(nodes) + 1, ChildLevel(f.level))>>
                       \o <<[f EXCEPT !.i = f.i + 1]>> \o Tail(stack)
    /\ UNCHANGED <<body, pc, ret, err, last>>

\* case map[string]interface{}: one iteration of the loop over the sorted keys.
parseValueMap ==
    /\ pc = "parseValue" /\ stack # <<>>
    /\ LET f == Head(stack)
           keys == SortedKeys(f.x)
       IN  /\ f.x.kind = "map"
           /\ f.i < Len(keys)
           /\ nodes' = Attach(nodes, f.top, NewNode(ElementNode, keys[f.i + 1], f.level))
           /\ stack' = <<Frame(MapLookup(f.x, keys[f.i + 1]), Len(nodes) + 1, ChildLevel(f.level))>>
                       \o <<[f EXCEPT !.i = f.i + 1]>> \o Tail(stack)
    /\ UNCHANGED <<body, pc, ret, err, last>>

\* case string, float64, bool: a Text node, and the call returns.
parseValueScalar ==
    /\ pc = "parseValue" /\ stack # <<>>
    /\ LET f == Head(stack)
       IN  /\ f.x.kind \in TextKinds
           /\ nodes' = Attach(nodes, f.top, NewNode(TextNode, ScalarText(f.x), f.level))
           /\ stack' = Tail(stack)
    /\ UNCHANGED <<body, pc, ret, err, last>>

\* nil matches no case of the switch: the call returns.
parseValueNil ==
    /\ pc = "parseValue" /\ stack # <<>>
    /\ Head(stack).x.kind \notin {"slice", "map"} \cup TextKinds
    /\ stack' = Tail(stack)
    /\ UNCHANGED <<body, pc, nodes, ret, err, last>>

\* The loop of a slice or a map is over: the call returns.
parseValueReturn ==
    /\ pc = "parseValue" /\ stack # <<>>
    /\ LET f == Head(stack)
       IN  \/ f.x.kind = "slice" /\ f.i = Len(f.x.items)
           \/ f.x.kind = "map" /\ f.i = Len(f.x.keys)
    /\ stack' = Tail(stack)
    /\ UNCHANGED <<body, pc, nodes, ret, err, last>>

\* parse: return doc, nil.
parseReturn ==
    /\ pc = "parseValue" /\ stack = <<>>
    /\ pc' = "done"
    /\ ret' = 1
    /\ err' = "nil"
    /\ UNCHANGED <<body, nodes, stack, last>>

\* ------------------------------------------------ the read-only operations
\* Each operation is given as the value it returns (out) and the nodes as the
\* call leaves them (nodes): the code assigns to locals and buffers only.

RECURSIVE SiblingChain(_, _)
\* for nn := first; nn != nil; nn = nn.NextSibling { a = append(a, nn) }
SiblingChain(ns, first) ==
    IF first = Nil THEN <<>>
    ELSE <<first>> \o SiblingChain(ns, ns[first].NextSibling)

\* ChildNodes advancing n.FirstChild itself in place of the local nn.
ChildNodesConsuming(ns, n) ==
    [nodes |-> [ns EXCEPT ![n].FirstChild = Nil],
     out |-> SiblingChain(ns, ns[n].FirstChild)]

\* n.ChildNodes()
ChildNodes(ns, n) ==
    [nodes |-> ns, out |-> SiblingChain(ns, ns[n].FirstChild)]

RECURSIVE output(_, _)
RECURSIVE outputChildren(_, _)
\* The closure `output` of InnerText: what it writes to buf for node n.
output(ns, n) ==
    IF ns[n].Type = TextNode THEN ns[n].Data
    ELSE outputChildren(ns, ns[n].FirstChild)

\* for child := first; child != nil; child = child.NextSibling { output(buf, child) }
outputChildren(ns, first) ==
    IF first = Nil THEN <<>>
    ELSE output(ns, first) \o outputChildren(ns, ns[first].NextSibling)

RECURSIVE ownTexts(_, _)
ownTexts(ns, first) ==
    IF first = Nil THEN <<>>
    ELSE (IF ns[first].Type = TextNode THEN ns[first].Data ELSE <<>>)
         \o ownTexts(ns, ns[first].NextSibling)

\* InnerText without the recursion: the texts of the node's own children.
InnerTextShallow(ns, n) ==
    [nodes |-> ns,
     out |-> IF ns[n].Type = TextNode THEN ns[n].Data
             ELSE ownTexts(ns, ns[n].FirstChild)]

\* n.InnerText()
InnerText(ns, n) == [nodes |-> ns, out |-> output(ns, n)]

\* "<element>" and "</element>"
OpenElement == <<60, 101, 108, 101, 109, 101, 110, 116, 62>>

CloseElement == <<60, 47, 101, 108, 101, 109, 101, 110, 116, 62>>

\* `<?xml version="1.0"?>`
XMLDeclaration ==
    <<60, 63, 120, 109, 108, 32, 118, 101, 114, 115, 105, 111, 110, 61, 34,
      49, 46, 48, 34, 63, 62>>

\* OpenTag without the case of the empty name.
OpenTagNamed(data) == <<60>> \o data \o <<62>>

\* The tag outputXML opens an element with.
OpenTag(data) ==
    IF data = EmptyString THEN OpenElement ELSE <<60>> \o data \o <<62>>

\* The tag outputXML closes a node with.
CloseTag(data) ==
    IF data = EmptyString THEN CloseElement ELSE <<60, 47>> \o data \o <<62>>

RECURSIVE outputXML(_, _)
RECURSIVE outputXMLChildren(_, _)
\* outputXML(buf, n): what it writes to buf.
outputXML(ns, n) ==
    IF ns[n].Type = TextNode THEN ns[n].Data
    ELSE (IF ns[n].Type = ElementNode THEN OpenTag(ns[n].Data) ELSE <<>>)
         \o outputXMLChildren(ns, ns[n].FirstChild)
         \o CloseTag(ns[n].Data)

\* for child := first; child != nil; child = child.NextSibling { outputXML(buf, child) }
outputXMLChildren(ns, first) ==
    IF first = Nil THEN <<>>
    ELSE outputXML(ns, first) \o outputXMLChildren(ns, ns[first].NextSibling)

\* n.OutputXML()
OutputXML(ns, n) ==
    [nodes |-> ns, out |-> XMLDeclaration \o outputXMLChildren(ns, ns[n].FirstChild)]

\* A read-only call op on node n that returned r.out and left r.nodes.
ReadCall(op, n, r) ==
    /\ pc = "done" /\ err = "nil"
    /\ nodes' = r.nodes
    /\ last' = [op |-> op, n |-> n, res |-> r.out,
                again |-> (last.op = op /\ last.n = n),
                was |-> IF last.op = op /\ last.n = n THEN last.res ELSE r.out]
    /\ UNCHANGED <<body, pc, stack, ret, err>>

ChildNodesCall ==
    \E n \in 1..Len(nodes) : ReadCall("ChildNodes", n, ChildNodes(nodes, n))

InnerTextCall ==
    \E n \in 1..Len(nodes) : ReadCall("InnerText", n, InnerText(nodes, n))

OutputXMLCall ==
    \E n \in 1..Len(nodes) : ReadCall("OutputXML", n, OutputXML(nodes, n))

\* ---------------------------------------------------- the specification

Next ==
    \/ LoadURLFail
    \/ LoadURL
    \/ ParseReadFail
    \/ Parse
    \/ parseFail
    \/ parse
    \/ parseValueSlice
    \/ parseValueMap
    \/ parseValueScalar
    \/ parseValueNil
    \/ parseValueReturn
    \/ parseReturn
    \/ ChildNodesCall
    \/ InnerTextCall
    \/ OutputXMLCall

Spec == Init /\ [][Next]_vars

\* The same program on the documents with large numbers.
InitNum ==
    /\ body \in NumBodies
    /\ pc = "start"
    /\ nodes = <<>>
    /\ stack = <<>>
    /\ ret = Nil
    /\ err = "nil"
    /\ last = NoCall

SpecNum == InitNum /\ [][Next]_vars

\* ------------------------------------------------------------ properties

\* parse returned a tree.
Built == pc = "done" /\ err = "nil"

NodeIds == 1..Len(nodes)

RECURSIVE Walk(_, _)
\* The nodes met following NextSibling from first, at most fuel of them.
Walk(first, fuel) ==
    IF first = Nil \/ fuel = 0 THEN <<>>
    ELSE <<first>> \o Walk(nodes[first].NextSibling, fuel - 1)

\* The child chain of p, cut off where it would run longer than the arena.
Chain(p) == Walk(nodes[p].FirstChild, Len(nodes) + 1)

RECURSIVE Hops(_, _)
\* The Parent hops from n to a node without Parent; -1 if there are more than fuel.
Hops(n, fuel) ==
    IF nodes[n].Parent = Nil THEN 0
    ELSE IF fuel = 0 THEN -1
    ELSE LET h == Hops(nodes[n].Parent, fuel - 1)
         IN  IF h < 0 THEN -1 ELSE h + 1

RECURSIVE Root(_, _)
\* The node without Parent above n (Nil if the Parent links loop).
Root(n, fuel) ==
    IF nodes[n].Parent = Nil THEN n
    ELSE IF fuel = 0 THEN Nil
    ELSE Root(nodes[n].Parent, fuel - 1)

Range(s) == {s[i] : i \in 1..Len(s)}

\* C3: in every tree Parse returns the links agree: FirstChild is nil iff
\* LastChild is; the first child has no PrevSibling, the last no NextSibling,
\* NextSibling leads from FirstChild to LastChild, everything on that chain
\* has the node as Parent, NextSibling and PrevSibling mirror each other,
\* every node but the root is on the child chain of exactly one node, and no
\* chain of links runs in a circle.
C3_LinksConsistent ==
    Built =>
        /\ ret = 1 /\ nodes[1].Parent = Nil
        /\ nodes[1].PrevSibling = Nil /\ nodes[1].NextSibling = Nil
        /\ \A p \in NodeIds :
            LET ch == Chain(p)
            IN  /\ (nodes[p].FirstChild = Nil) <=> (nodes[p].LastChild = Nil)
                /\ Len(ch) <= Len(nodes)
                /\ \A i, j \in 1..Len(ch) : ch[i] = ch[j] => i = j
                /\ nodes[p].FirstChild # Nil =>
                      /\ nodes[nodes[p].FirstChild].PrevSibling = Nil
                      /\ nodes[nodes[p].LastChild].NextSibling = Nil
                      /\ ch[Len(ch)] = nodes[p].LastChild
                /\ \A c \in Range(ch) : nodes[c].Parent = p
        /\ \A a, b \in NodeIds :
            (nodes[a].NextSibling = b) <=> (nodes[b].PrevSibling = a)
        /\ \A n \in NodeIds \ {1} :
            /\ Cardinality({p \in NodeIds : n \in Range(Chain(p))}) = 1
            /\ Root(n, Len(nodes)) = 1

\* A tree of a parent with at least two children, one of them with a child.
C3_Witness ==
    /\ Built
    /\ \E p \in NodeIds : Len(Chain(p)) >= 2
    /\ \E n \in NodeIds : nodes[n].Parent \notin {Nil, 1}

\* C10: every parseValue call runs with level = top.level + 1, so addNode
\* always takes its `n.level > top.level` branch: every node made so far is
\* linked under the top of the call that made it, and in the finished tree a
\* node's level is its number of Parent hops to the Document node.
C10_LevelIsDepth ==
    /\ \A k \in 1..Len(stack) :
          stack[k].level = nodes[stack[k].top].level + 1
    /\ pc \in {"parseValue", "done"} =>
          \A n \in NodeIds :
              /\ nodes[n].level = Hops(n, Len(nodes))
              /\ n # 1 => /\ nodes[n].Parent # Nil
                          /\ n \in Range(Chain(nodes[n].Parent))
                          /\ nodes[nodes[n].Parent].level = nodes[n].level - 1

\* A finished tree with a node two levels down.
C10_Witness == Built /\ \E n \in NodeIds : nodes[n].level = 2

\* C7: a failed read or decode (and a failed transport in LoadURL) returns a
\* non-nil error with a nil node, and no node has been made; a nil error
\* comes with the Document node.
C7_ErrorMeansNoTree ==
    pc = "done" =>
        /\ body = Malformed => err # "nil"
        /\ err # "nil" => ret = Nil /\ nodes = <<>>
        /\ err = "nil" => ret # Nil /\ nodes[ret].Type = DocumentNode

\* The decode of a malformed body has failed.
C7_Witness == pc = "done" /\ body = Malformed /\ err = "decode"

RECURSIVE Position(_, _)
\* The place of n among its siblings: one more than its PrevSibling hops.
Position(n, fuel) ==
    IF nodes[n].PrevSibling = Nil \/ fuel = 0 THEN 1
    ELSE 1 + Position(nodes[n].PrevSibling, fuel - 1)

HasKey(v, key) == \E i \in 1..Len(v.keys) : v.keys[i] = key

RECURSIVE ValueAt(_, _)
\* The part of the decoded body that the Document or Element node n stands
\* for: the body itself, the array entry at n's place, or the member under
\* n's name.  Malformed where the tree does not follow the body.
ValueAt(n, fuel) ==
    IF n = 1 THEN body
    ELSE IF fuel = 0 \/ nodes[n].Parent = Nil \/ nodes[n].Type # ElementNode
    THEN Malformed
    ELSE LET pv == ValueAt(nodes[n].Parent, fuel - 1)
             i == Position(n, Len(nodes))
         IN  IF pv.kind = "slice" /\ i <= Len(pv.items) THEN pv.items[i]
             ELSE IF pv.kind = "map" /\ HasKey(pv, nodes[n].Data)
             THEN MapLookup(pv, nodes[n].Data)
             ELSE Malformed

ValueOf(n) == ValueAt(n, Len(nodes))

\* The names of the children of p, in ChildNodes order.
ChildNames(p) == [i \in 1..Len(Chain(p)) |-> nodes[Chain(p)[i]].Data]

\* C1: wherever the body holds an object, the node standing for it has one
\* Element child per key and no other child, each named after its key, and
\* ChildNodes yields them ascending by name whatever order the map is
\* ranged in; the last of them has no NextSibling.
C1_ObjectKeysSorted ==
    Built =>
        \A p \in NodeIds :
            ValueOf(p).kind = "map" =>
                LET ch == Chain(p)
                    names == ChildNames(p)
                IN  /\ Len(ch) = Len(ValueOf(p).keys)
                    /\ Range(names) = Range(ValueOf(p).keys)
                    /\ \A i \in 1..Len(ch) : nodes[ch[i]].Type = ElementNode
                    /\ \A i, j \in 1..Len(ch) : i < j => StrLess(names[i], names[j])
                    /\ Len(ch) > 0 => nodes[ch[Len(ch)]].NextSibling = Nil

\* An object below the top whose range order is not the ascending one.
C1_Witness ==
    /\ Built
    /\ \E p \in NodeIds \ {1} :
          /\ ValueOf(p).kind = "map"
          /\ Len(ValueOf(p).keys) = 2
          /\ StrLess(ValueOf(p).keys[2], ValueOf(p).keys[1])

RECURSIVE ContainsNull(_)
ContainsNull(v) ==
    \/ v.kind = "nil"
    \/ \E i \in 1..Len(v.items) : ContainsNull(v.items[i])

RECURSIVE NodeCount(_)
RECURSIVE NodeCountAll(_)
\* The nodes a value is to give: one Element per array entry and per object
\* member, one Text per string, number and boolean, none for null.
NodeCount(v) ==
    IF v.kind \in {"slice", "map"} THEN Len(v.items) + NodeCountAll(v.items)
    ELSE IF v.kind = "nil" THEN 0
    ELSE 1

NodeCountAll(items) ==
    IF items = <<>> THEN 0
    ELSE NodeCount(items[1]) + NodeCountAll(Tail(items))

RECURSIVE CanonText(_)
RECURSIVE CanonTextAll(_)
\* The canonical text of a value: the rendering of a scalar, nothing for
\* null, and for an array or object the texts of its entries, an object's by
\* ascending key.
CanonText(v) ==
    IF v.kind = "slice" THEN CanonTextAll(v.items)
    ELSE IF v.kind = "map"
    THEN CanonTextAll([i \in 1..Len(v.keys) |-> MapLookup(v, SortStrings(v.keys)[i])])
    ELSE IF v.kind = "nil" THEN <<>>
    ELSE ScalarText(v)

CanonTextAll(items) ==
    IF items = <<>> THEN <<>>
    ELSE CanonText(items[1]) \o CanonTextAll(Tail(items))

\* C2: for a top-level array of n entries, ChildNodes of the Document node
\* returns n nodes, each an Element with the empty name, and InnerText of
\* the i-th is the canonical text of the i-th entry.
C2_ArrayChildren ==
    Built /\ body.kind = "slice" =>
        LET kids == ChildNodes(nodes, ret).out
        IN  /\ Len(kids) = Len(body.items)
            /\ \A i \in 1..Len(kids) :
                  /\ nodes[kids[i]].Type = ElementNode
                  /\ nodes[kids[i]].Data = EmptyString
                  /\ InnerText(nodes, kids[i]).out = CanonText(body.items[i])

\* ChildNodes has been called on the Document node of an array of two
\* entries with different texts.
C2_Witness ==
    /\ Built /\ body.kind = "slice" /\ Len(body.items) = 2
    /\ CanonText(body.items[1]) # CanonText(body.items[2])
    /\ last.op = "ChildNodes" /\ last.n = ret /\ Len(last.res) = 2

RECURSIVE PreOrder(_, _)
RECURSIVE PreOrderAll(_, _)
\* The subtree of n in depth-first pre-order: n, then the subtrees of its
\* children from first to last.
PreOrder(n, fuel) ==
    IF fuel = 0 THEN <<n>> ELSE <<n>> \o PreOrderAll(Chain(n), fuel - 1)

PreOrderAll(ch, fuel) ==
    IF ch = <<>> THEN <<>>
    ELSE PreOrder(ch[1], fuel) \o PreOrderAll(Tail(ch), fuel)

RECURSIVE TextData(_)
\* The Data of the Text nodes of a sequence of nodes, joined.
TextData(seq) ==
    IF seq = <<>> THEN <<>>
    ELSE (IF nodes[seq[1]].Type = TextNode THEN nodes[seq[1]].Data ELSE <<>>)
         \o TextData(Tail(seq))

Subtree(n) == PreOrder(n, Len(nodes))

\* C4: InnerText of a node is the Data of the Text nodes of its subtree,
\* joined in pre-order without separators: its own Data for a Text node,
\* the empty string where the subtree has no Text node.
C4_InnerTextIsSubtreeText ==
    Built =>
        /\ \A n \in NodeIds :
              /\ InnerText(nodes, n).out = TextData(Subtree(n))
              /\ nodes[n].Type = TextNode => InnerText(nodes, n).out = nodes[n].Data
              /\ (\A m \in Range(Subtree(n)) : nodes[m].Type # TextNode)
                    => InnerText(nodes, n).out = <<>>
        /\ last.op = "InnerText" => last.res = TextData(Subtree(last.n))

\* InnerText has been called on a node with two Text nodes below it.
C4_Witness ==
    /\ Built /\ last.op = "InnerText"
    /\ Cardinality({m \in Range(Subtree(last.n)) : nodes[m].Type = TextNode}) >= 2
    /\ last.res # <<>>

\* The tags around the member of an object under key k: <k> and </k>; under
\* the empty key these are <> and </> when keyed, and the tags of an array
\* entry otherwise.
KeyOpen(k, keyed) ==
    IF k = EmptyString /\ ~keyed THEN OpenElement ELSE <<60>> \o k \o <<62>>

KeyClose(k, keyed) ==
    IF k = EmptyString /\ ~keyed THEN CloseElement ELSE <<60, 47>> \o k \o <<62>>

RECURSIVE Markup(_, _)
RECURSIVE MarkupAll(_, _, _, _)
\* The markup of a value: a scalar's text, nothing for null, one
\* <element>...</element> pair around each array entry and one tag pair
\* around each object member, by ascending key, each pair around the markup
\* of what it holds.
Markup(v, keyed) ==
    IF v.kind = "slice"
    THEN MarkupAll([i \in 1..Len(v.items) |-> OpenElement],
                   [i \in 1..Len(v.items) |-> CloseElement], v.items, keyed)
    ELSE IF v.kind = "map"
    THEN LET ks == SortStrings(v.keys)
         IN  MarkupAll([i \in 1..Len(ks) |-> KeyOpen(ks[i], keyed)],
                       [i \in 1..Len(ks) |-> KeyClose(ks[i], keyed)],
                       [i \in 1..Len(ks) |-> MapLookup(v, ks[i])], keyed)
    ELSE IF v.kind = "nil" THEN <<>>
    ELSE ScalarText(v)

MarkupAll(opens, closes, items, keyed) ==
    IF items = <<>> THEN <<>>
    ELSE opens[1] \o Markup(items[1], keyed) \o closes[1]
         \o MarkupAll(Tail(opens), Tail(closes), Tail(items), keyed)

\* C8 as claimed: OutputXML of the Document node is the declaration followed
\* by one <name>...</name> pair per Element made for an object key and one
\* <element>...</element> pair per array entry, nested in document order.
C8_TagPerKey ==
    Built => OutputXML(nodes, ret).out = XMLDeclaration \o Markup(body, TRUE)

\* C8: OutputXML of the Document node is the declaration followed by one
\* <name>...</name> pair per Element with a non-empty name and one
\* <element>...</element> pair per Element with the empty name (an array
\* entry, or the member under the key ""), nested in document order around
\* the raw text of the Text nodes.
C8_TagPerElement ==
    /\ Built => OutputXML(nodes, ret).out = XMLDeclaration \o Markup(body, FALSE)
    /\ Built /\ last.op = "OutputXML" /\ last.n = ret
          => last.res = XMLDeclaration \o Markup(body, FALSE)

\* OutputXML has been called on the Document node of a body with a named
\* member, an array entry and a text.
C8_Witness ==
    /\ Built /\ last.op = "OutputXML" /\ last.n = ret
    /\ \E n, m, t \in NodeIds :
          /\ nodes[n].Type = ElementNode /\ nodes[n].Data # EmptyString
          /\ nodes[m].Type = ElementNode /\ nodes[m].Data = EmptyString
          /\ nodes[t].Type = TextNode

\* C9: no read-only call changes a field of a node, and a call repeated on
\* the same node returns what it returned before.
C9_ReadOnly ==
    /\ [][pc = "done" => nodes' = nodes]_vars
    /\ [](last.again => last.res = last.was)

\* A call has been repeated on a node with children.
C9_Witness ==
    Built /\ last.again /\ nodes[last.n].FirstChild # Nil /\ last.res # <<>>

\* ----------------------------------------------- reading a number back

RECURSIVE DivStep(_, _, _)
\* Long division of the digits d by a small m, r carried in: quotient
\* digits (as many as d has) and remainder.
DivStep(d, m, r) ==
    IF d = <<>> THEN [q |-> <<>>, r |-> r]
    ELSE LET cur == 10 * r + d[1]
             rest == DivStep(Tail(d), m, cur % m)
         IN  [q |-> <<cur \div m>> \o rest.q, r |-> rest.r]

RECURSIVE BitsOf(_, _)
\* The n low binary digits of a small number.
BitsOf(x, n) ==
    IF n = 0 THEN <<>> ELSE BitsOf(x \div 2, n - 1) \o <<x % 2>>

RECURSIVE DecToBits(_)
\* The binary numeral of a decimal numeral (eight binary digits a step).
DecToBits(d) ==
    IF d = <<>> THEN <<>>
    ELSE LET dv == DivStep(d, 256, 0)
             q == StripZeros(dv.q)
         IN  IF q = <<>> THEN StripZeros(BitsOf(dv.r, 8))
             ELSE DecToBits(q) \o BitsOf(dv.r, 8)

RECURSIVE BinInc(_)
\* bits + 1.
BinInc(bits) ==
    IF bits = <<>> THEN <<1>>
    ELSE IF Last(bits) = 0 THEN Front(bits) \o <<1>>
    ELSE BinInc(Front(bits)) \o <<0>>

\* The float64 nearest to a nonnegative integer given in binary, ties to the
\* even mantissa: what reading the integer's numeral as a float64 gives.
NearestFloat(bits) ==
    IF Len(bits) <= MantBits THEN bits
    ELSE LET m == SubSeq(bits, 1, MantBits)
             rest == SubSeq(bits, MantBits + 1, Len(bits))
             above == \E i \in 2..Len(rest) : rest[i] = 1
             up == rest[1] = 1 /\ (above \/ m[MantBits] = 1)
         IN  (IF up THEN BinInc(m) ELSE m) \o Zeros(Len(rest))

\* The Text nodes made for numbers, each with the number it was made for.
NumberTexts ==
    {t \in NodeIds : /\ nodes[t].Type = TextNode
                     /\ nodes[t].Parent # Nil
                     /\ ValueOf(nodes[t].Parent).kind = "float64"}

NumberOf(t) == ValueOf(nodes[t].Parent)

IsDigits(str) == str # <<>> /\ \A i \in 1..Len(str) : str[i] \in 48..57

DigitValues(str) == StripZeros([i \in 1..Len(str) |-> str[i] - 48])

\* str is the plain decimal numeral of the integer of magnitude bits.
PlainNumeral(str, bits) ==
    /\ IsDigits(str)
    /\ Len(str) > 1 => str[1] # 48
    /\ DecToBits(DigitValues(str)) = bits

\* C6 as claimed: the Text node of an integer-valued float64 holds the
\* integer's decimal digits, after a minus sign if it is negative.
C6_PlainDigits ==
    Built =>
        \A t \in NumberTexts :
            LET f == NumberOf(t)
                data == nodes[t].Data
            IN  IF f.neg /\ f.bits # <<>>
                THEN data # <<>> /\ data[1] = 45 /\ PlainNumeral(Tail(data), f.bits)
                ELSE PlainNumeral(data, f.bits)

\* C6: the Text node of an integer-valued float64 holds a minus sign exactly
\* if the sign bit is set (so also for -0), then decimal digits only: no
\* point, no exponent.  Read back as a float64 the digits give the same
\* number, and up to 2^53 they are the integer's own digits.
C6_DigitsRoundTrip ==
    Built =>
        \A t \in NumberTexts :
            LET f == NumberOf(t)
                data == nodes[t].Data
                digits == IF f.neg /\ data # <<>> THEN Tail(data) ELSE data
            IN  /\ f.neg <=> (data # <<>> /\ data[1] = 45)
                /\ IsDigits(digits)
                /\ Len(digits) > 1 => digits[1] # 48
                /\ NearestFloat(DecToBits(DigitValues(digits))) = f.bits
                /\ (Len(f.bits) <= MantBits \/ f.bits = <<1>> \o Zeros(MantBits))
                      => DecToBits(DigitValues(digits)) = f.bits

\* The Text node of 365823929453 has been made, and holds "365823929453".
C6_Witness ==
    /\ Built
    /\ \E t \in NumberTexts :
          /\ NumberOf(t).bits = LargeNumberBits /\ ~NumberOf(t).neg
          /\ nodes[t].Data = <<51, 54, 53, 56, 50, 51, 57, 50, 57, 52, 53, 51>>

====
